---- MODULE Spec2Model ----
(***************************************************************************)
(* A model of src/src/main.rs: the command line front end of the Azure     *)
(* storage client.  Three things are modelled:                             *)
(*   - main: argument parsing, credential selection and the dispatch of    *)
(*     the parsed subcommand (specification Spec);                         *)
(*   - build_readme: the recursive rendering of a command tree into        *)
(*     Markdown sections (specification SpecReadme);                       *)
(*   - the post-processing passes main applies to the rendered document    *)
(*     (specification SpecPost).                                           *)
(* A Rust String is a sequence of one-character strings, so that joining,  *)
(* replacing, splitting into lines and upper-casing are computed.          *)
(***************************************************************************)
EXTENDS Integers, Sequences, FiniteSets, TLC

VARIABLES
    pc,                  \* position of the run in main
    inv,                 \* the invocation: command line and environment
    args,                \* Option<Args>: the result of Args::parse()
    storage_credentials, \* Option<StorageCredentials>
    clients,             \* the service clients constructed so far, in order
    calls,               \* the calls forwarded to an operation group, in order
    outcome,             \* Option<Result>: what the forwarded call returned
    stdout,              \* the text printed by print!
    stderr,              \* the errors reported to the user, in order
    exit_code,           \* Option<exit status>
    cmd,                 \* the command tree (clap::Command) handed to build_readme
    sections,            \* the sections build_readme has emitted, in order
    rendered,            \* the String build_readme returned
    renamed,             \* ... after the two replace() passes
    titled,              \* ... after replacen()
    stripped,            \* ... after lines().map(trim_end).join("\n")
    readme               \* ... after the last replace(): the document printed

vars == <<pc, inv, args, storage_credentials, clients, calls, outcome, stdout,
          stderr, exit_code, cmd, sections, rendered, renamed, titled, stripped,
          readme>>

mainVars == <<inv, args, storage_credentials, clients, calls, outcome, stdout,
              stderr, exit_code>>

docVars == <<rendered, renamed, titled, stripped, readme>>

None == <<>>

Some(x) == <<x>>

(***************************************************************************)
(* Bounds of the model.                                                    *)
(***************************************************************************)
\* the largest command tree of arbitrary shape that is rendered
MaxNodes == 4

\* the longest single chain of nested commands that is rendered
MaxChain == 7

\* the largest command tree whose document is post-processed
MaxPostNodes == 3

(***************************************************************************)
(* Strings.                                                                *)
(***************************************************************************)
min(a, b) == IF a < b THEN a ELSE b

RECURSIVE concat(_)
\* the concatenation of a sequence of strings
concat(ss) ==
    IF ss = <<>> THEN <<>>
    ELSE IF Len(ss) = 1 THEN ss[1]
    ELSE LET h == Len(ss) \div 2
         IN concat(SubSeq(ss, 1, h)) \o concat(SubSeq(ss, h + 1, Len(ss)))

RECURSIVE join(_, _)
\* [String]::join(sep)
join(ss, sep) ==
    IF ss = <<>> THEN <<>>
    ELSE IF Len(ss) = 1 THEN ss[1]
    ELSE LET h == Len(ss) \div 2
         IN join(SubSeq(ss, 1, h), sep) \o sep \o join(SubSeq(ss, h + 1, Len(ss)), sep)

LowerCase == <<"a", "b", "c", "d", "e", "f", "g", "h", "i", "j", "k", "l", "m",
               "n", "o", "p", "q", "r", "s", "t", "u", "v", "w", "x", "y", "z">>

UpperCase == <<"A", "B", "C", "D", "E", "F", "G", "H", "I", "J", "K", "L", "M",
               "N", "O", "P", "Q", "R", "S", "T", "U", "V", "W", "X", "Y", "Z">>

char_to_uppercase(c) ==
    IF \E i \in 1..Len(LowerCase) : LowerCase[i] = c
    THEN UpperCase[CHOOSE i \in 1..Len(LowerCase) : LowerCase[i] = c]
    ELSE c

\* str::to_uppercase
to_uppercase(s) == [i \in 1..Len(s) |-> char_to_uppercase(s[i])]

\* the positions from i on at which from occurs in s
matches(s, from, i) ==
    {j \in i..(Len(s) - Len(from) + 1) : SubSeq(s, j, j + Len(from) - 1) = from}

RECURSIVE replace_from(_, _, _, _, _)
\* s from position i on, with the first n matches of from replaced by to
\* (all of them when n < 0); matches are found left to right and do not
\* overlap, and the replacement text is not searched again
replace_from(s, from, to, i, n) ==
    LET found == matches(s, from, i)
    IN IF n = 0 \/ found = {} THEN SubSeq(s, i, Len(s))
       ELSE LET m == CHOOSE j \in found : \A k \in found : j <= k
            IN SubSeq(s, i, m - 1) \o to
               \o replace_from(s, from, to, m + Len(from), IF n > 0 THEN n - 1 ELSE n)

\* str::replace
replace(s, from, to) == replace_from(s, from, to, 1, -1)

\* str::replacen
replacen(s, from, to, count) == replace_from(s, from, to, 1, count)

\* the pieces of s between "\n" characters
split_newline(s) ==
    LET at == {i \in 1..Len(s) : s[i] = "\n"}
        \* the position of the k-th "\n"; 0 before the first, Len(s) + 1 after the last
        nl(k) == IF k = 0 THEN 0
                 ELSE IF k > Cardinality(at) THEN Len(s) + 1
                 ELSE CHOOSE i \in at : Cardinality({j \in at : j <= i}) = k
    IN [k \in 1..(Cardinality(at) + 1) |-> SubSeq(s, nl(k - 1) + 1, nl(k) - 1)]

strip_cr(l) ==
    IF l # <<>> /\ l[Len(l)] = "\r" THEN SubSeq(l, 1, Len(l) - 1) ELSE l

\* str::lines: lines end with "\n" or "\r\n", the last line ending is optional
lines(s) ==
    LET pieces == split_newline(s)
        kept == IF pieces[Len(pieces)] = <<>>
                THEN SubSeq(pieces, 1, Len(pieces) - 1)
                ELSE pieces
    IN [i \in 1..Len(kept) |-> strip_cr(kept[i])]

WhiteSpace == {" ", "\t", "\n", "\r", "\f"}

\* str::trim_end
trim_end(l) ==
    LET keep == {i \in 1..Len(l) : l[i] \notin WhiteSpace}
    IN IF keep = {} THEN <<>>
       ELSE SubSeq(l, 1, CHOOSE i \in keep : \A j \in keep : j <= i)

repeat(c, n) == [i \in 1..n |-> c]

(***************************************************************************)
(* The command tree.  A tree is a sequence of nodes (clap::Command), node  *)
(* 1 being the root; a node holds its name, the ids of its positional      *)
(* arguments in declaration order, its hide setting, its rendered long     *)
(* help and the indices of its subcommands in declaration order.           *)
(***************************************************************************)
BinName == <<"a", "z", "u", "r", "e", "-", "s", "t", "o", "r", "a", "g", "e", "-", "c", "l", "i">>

ReadmeName == <<"r", "e", "a", "d", "m", "e">>

AccountName == <<"a", "c", "c", "o", "u", "n", "t">>

ContainerName == <<"c", "o", "n", "t", "a", "i", "n", "e", "r">>

QueuesName == <<"q", "u", "e", "u", "e", "s">>

DatalakeName == <<"d", "a", "t", "a", "l", "a", "k", "e">>

TablesName == <<"t", "a", "b", "l", "e", "s">>

ContainerNameId == <<"c", "o", "n", "t", "a", "i", "n", "e", "r", "_", "n", "a", "m", "e">>

\* the heading levels crates.io and GitHub show
MaxHeadingLevel == 6

Command(name, positionals, hide, long_help, subcommands) ==
    [name |-> name, positionals |-> positionals, hide |-> hide,
     long_help |-> long_help, subcommands |-> subcommands]

\* Command::get_name
get_name(c) == c.name

\* Command::get_positionals
get_positionals(c) == c.positionals

\* Command::render_long_help
render_long_help(c) == c.long_help

\* Command::get_subcommands_mut
get_subcommands_mut(c) == c.subcommands

\* push_names with the ids of the positionals left in lower case
push_names_lowercase(c, names) ==
    LET base_name == get_name(c)
        positionals == get_positionals(c)
    IN (names \o <<base_name>>)
       \o [i \in 1..Len(positionals) |-> <<"<">> \o positionals[i] \o <<">">>]

\* names after the pushes of build_readme: the path handed down by the
\* caller, the name of the command, then each of its positionals as <ID>
push_names(c, names) ==
    LET base_name == get_name(c)
        positionals == get_positionals(c)
    IN (names \o <<base_name>>)
       \o [i \in 1..Len(positionals) |->
              <<"<">> \o to_uppercase(positionals[i]) \o <<">">>]

\* the number of '#' pushed in front of the heading
heading_level(names) == min(Len(names), MaxHeadingLevel)

\* the subcommands the loop of build_readme passes over
skip_subcommand(c) == get_name(c) = ReadmeName

\* the Vec handed to the recursive call: a clone of names
child_names(names) == names

RECURSIVE build_readme(_, _, _), build_subcommands(_, _, _, _, _)
\* build_readme(cmd, names) for node c of tree: the sections pushed onto
\* readme, in order; a section records the node it was emitted for, the
\* number of '#', the display name and the help text of the code block
build_readme(tree, c, names0) ==
    LET names == push_names(tree[c], names0)
        name == join(names, <<" ">>)
        section == [node |-> c,
                    level |-> heading_level(names),
                    name |-> name,
                    long_help |-> render_long_help(tree[c]),
                    names |-> names]
    IN <<section>> \o build_subcommands(tree, get_subcommands_mut(tree[c]), 1, names, <<>>)

\* the loop over get_subcommands_mut(), from the i-th subcommand on; emitted
\* holds the sections of the subcommands rendered before it
build_subcommands(tree, subs, i, names, emitted) ==
    IF i > Len(subs) THEN emitted
    ELSE IF skip_subcommand(tree[subs[i]])
         THEN build_subcommands(tree, subs, i + 1, names, emitted)
         ELSE build_subcommands(tree, subs, i + 1, names,
                  emitted \o build_readme(tree, subs[i], child_names(names)))

\* the backquote character, which a string of this language cannot hold
Backquote == "U+0060"

FenceOpen == <<"\n", "\n", Backquote, Backquote, Backquote, "\n">>

FenceClose == <<"\n", Backquote, Backquote, Backquote, "\n">>

\* the text of one section: the '#'s, a space, the display name, and the
\* help text inside a fenced code block
section_text(s) ==
    repeat("#", s.level) \o <<" ">> \o s.name \o FenceOpen \o s.long_help \o FenceClose

\* the String build_readme returns
readme_text(secs) == concat([i \in 1..Len(secs) |-> section_text(secs[i])])

(***************************************************************************)
(* The post-processing passes of the readme arm of main.                   *)
(***************************************************************************)
Alias == <<"a", "z", "s">>

AliasExe == <<"a", "z", "s", ".", "e", "x", "e">>

RootHeading == <<"#", " ", "a", "z", "s">>

Title == <<"#", " ", "A", "z", "u", "r", "e", " ", "S", "t", "o", "r", "a", "g", "e", " ", "C", "L", "I">>

\* env!("CARGO_PKG_DESCRIPTION"): the description of the package manifest,
\* a single line of text fixed when the program is compiled
CARGO_PKG_DESCRIPTION == <<"S", "t", "o", "r", "a", "g", "e", " ", "C", "L", "I", " ", "t", "o", "o", "l">>

NewLine == <<"\n">>

\* .replace("azure-storage-cli", "azs").replace("azs.exe", "azs")
rename_binary(doc) == replace(replace(doc, BinName, Alias), AliasExe, Alias)

\* replace_root_heading with every occurrence of the root heading replaced
replace_root_heading_everywhere(doc) ==
    replace(doc, RootHeading, Title \o NewLine \o NewLine \o CARGO_PKG_DESCRIPTION)

\* .replacen("# azs", format!("# Azure Storage CLI\n\n{}", description), 1)
replace_root_heading(doc) ==
    replacen(doc, RootHeading, Title \o NewLine \o NewLine \o CARGO_PKG_DESCRIPTION, 1)

\* .lines().map(str::trim_end).collect::<Vec<_>>().join("\n")
strip_lines(doc) ==
    LET ls == lines(doc)
    IN join([i \in 1..Len(ls) |-> trim_end(ls[i])], NewLine)

\* collapse_blank_lines with two blank lines turned into one blank line
collapse_blank_lines_keep_one(doc) ==
    replace(doc, NewLine \o NewLine \o NewLine, NewLine \o NewLine)

\* .replace("\n\n\n", "\n")
collapse_blank_lines(doc) == replace(doc, NewLine \o NewLine \o NewLine, NewLine)

(***************************************************************************)
(* The command trees that are rendered.                                    *)
(***************************************************************************)
RECURSIVE sorted_seq(_)
\* the elements of a set of numbers in increasing order
sorted_seq(S) ==
    IF S = {} THEN <<>>
    ELSE LET m == CHOOSE x \in S : \A y \in S : x <= y
         IN <<m>> \o sorted_seq(S \ {m})

Template(name, positionals, hide) ==
    [name |-> name, positionals |-> positionals, hide |-> hide]

\* a plain subcommand
TAccount == Template(AccountName, <<>>, FALSE)

\* a subcommand with one positional argument
TContainer == Template(ContainerName, <<ContainerNameId>>, FALSE)

\* the hidden subcommand named readme
TReadme == Template(ReadmeName, <<>>, TRUE)

\* a hidden subcommand of another name, with two positional arguments
THiddenCopy == Template(<<"c", "o", "p", "y">>, <<<<"s", "r", "c">>, <<"d", "s", "t">>>>, TRUE)

\* a subcommand named readme that is not hidden
TShownReadme == Template(ReadmeName, <<>>, FALSE)

NodeTemplates == {TAccount, TContainer, TReadme, THiddenCopy, TShownReadme}

ChainTemplates == {TAccount, TContainer}

PostTemplates == {TAccount, TContainer, TReadme}

ShortHelp == <<"U", "s", "a", "g", "e">>

\* the parent of every node but the root, parents before their children
Parents(n) == {p \in [2..n -> 1..(n - 1)] : \A i \in 2..n : p[i] < i}

ChainParents(n) == {[i \in 2..n |-> i - 1]}

\* names are unique among the subcommands of one command
SiblingsDistinct(n, parent, attr) ==
    \A i, j \in 2..n : (i < j /\ parent[i] = parent[j]) => attr[i].name # attr[j].name

make_tree(n, parent, attr, help) ==
    [i \in 1..n |->
        LET subs == sorted_seq({j \in 2..n : parent[j] = i})
        IN IF i = 1
           THEN Command(BinName, <<>>, FALSE, help, subs)
           ELSE Command(attr[i].name, attr[i].positionals, attr[i].hide, help, subs)]

Trees(n, parents, templates, help) ==
    {make_tree(n, x[1], x[2], help) :
        x \in {y \in parents \X [2..n -> templates] : SiblingsDistinct(n, y[1], y[2])}}

\* the trees of SpecReadme
TreeSet ==
    (UNION {Trees(n, Parents(n), NodeTemplates, ShortHelp) : n \in 1..MaxNodes})
    \cup (UNION {Trees(n, ChainParents(n), ChainTemplates, ShortHelp) : n \in 1..MaxChain})

\* help texts with the binary name, trailing white space, runs of blank
\* lines and lines that look like the root heading
HelpTexts == {
    <<"U", "s", "a", "g", "e", ":", " ", "a", "z", "u", "r", "e", "-", "s", "t", "o", "r", "a", "g", "e", "-", "c", "l", "i", ".", "e", "x", "e", " ", "[", "O", "P", "T", "I", "O", "N", "S", "]", "\n">>,
    <<"o", "p", "t", " ", " ", "\n", "\n", "\n", "e", "n", "d">>,
    <<"a", "\n", " ", "\n", "\t", "\n", "b", "\n", "\n">>,
    <<"a", "\n", "\n", "\n", "\n", "b">>,
    <<"a", "\n", "\n", "\n", "\n", "\n", "b", "\r", "\n">>,
    <<"#", " ", "a", "z", "s", ".", "e", "x", "e", "\n", "#", " ", "a", "z", "u", "r", "e", "-", "s", "t", "o", "r", "a", "g", "e", "-", "c", "l", "i", " ", "x">>}

\* the trees of SpecPost
PostTreeSet ==
    UNION {Trees(n, Parents(n), PostTemplates, h) :
              <<n, h>> \in (1..MaxPostNodes) \X HelpTexts}

\* the tree Args::command() builds from the declarations of Args and
\* SubCommands; the subcommands of the five families are declared in
\* other modules and are left out
ArgsCommand ==
    LET help(n) == <<"U", "s", "a", "g", "e", ":", " ", "a", "z", "u", "r", "e", "-", "s", "t", "o", "r", "a", "g", "e", "-", "c", "l", "i", ".", "e", "x", "e", " ">> \o n \o NewLine
    IN <<Command(BinName, <<>>, FALSE, help(<<>>), <<2, 3, 4, 5, 6, 7>>),
         Command(AccountName, <<>>, FALSE, help(AccountName), <<>>),
         Command(ContainerName, <<ContainerNameId>>, FALSE, help(ContainerName), <<>>),
         Command(QueuesName, <<>>, FALSE, help(QueuesName), <<>>),
         Command(DatalakeName, <<>>, FALSE, help(DatalakeName), <<>>),
         Command(TablesName, <<>>, FALSE, help(TablesName), <<>>),
         Command(ReadmeName, <<>>, TRUE, help(ReadmeName), <<>>)>>

(***************************************************************************)
(* Rendering and post-processing, one step at a time.                      *)
(***************************************************************************)
MainIdle ==
    /\ inv = None
    /\ args = None
    /\ storage_credentials = None
    /\ clients = <<>>
    /\ calls = <<>>
    /\ outcome = None
    /\ stdout = <<>>
    /\ stderr = <<>>
    /\ exit_code = None

DocEmpty ==
    /\ sections = <<>>
    /\ rendered = <<>>
    /\ renamed = <<>>
    /\ titled = <<>>
    /\ stripped = <<>>
    /\ readme = <<>>

\* build_readme(&mut cmd, Vec::new())
BuildReadme ==
    /\ pc = "render"
    /\ sections' = build_readme(cmd, 1, <<>>)
    /\ rendered' = readme_text(sections')
    /\ pc' = "rendered"
    /\ UNCHANGED <<mainVars, cmd, renamed, titled, stripped, readme>>

RenameBinary ==
    /\ pc = "rendered"
    /\ renamed' = rename_binary(rendered)
    /\ pc' = "renamed"
    /\ UNCHANGED <<mainVars, cmd, sections, rendered, titled, stripped, readme>>

ReplaceRootHeading ==
    /\ pc = "renamed"
    /\ titled' = replace_root_heading(renamed)
    /\ pc' = "titled"
    /\ UNCHANGED <<mainVars, cmd, sections, rendered, renamed, stripped, readme>>

StripLines ==
    /\ pc = "titled"
    /\ stripped' = strip_lines(titled)
    /\ pc' = "stripped"
    /\ UNCHANGED <<mainVars, cmd, sections, rendered, renamed, titled, readme>>

CollapseBlankLines ==
    /\ pc = "stripped"
    /\ readme' = collapse_blank_lines(stripped)
    /\ pc' = "collapsed"
    /\ UNCHANGED <<mainVars, cmd, sections, rendered, renamed, titled, stripped>>

InitReadme ==
    /\ pc = "render"
    /\ cmd \in TreeSet
    /\ MainIdle
    /\ DocEmpty

NextReadme == BuildReadme

\* build_readme applied to every tree of TreeSet
SpecReadme == InitReadme /\ [][NextReadme]_vars

InitPost ==
    /\ pc = "render"
    /\ cmd \in PostTreeSet
    /\ MainIdle
    /\ DocEmpty

NextPost ==
    \/ BuildReadme
    \/ RenameBinary
    \/ ReplaceRootHeading
    \/ StripLines
    \/ CollapseBlankLines

\* the readme arm of main applied to every tree of PostTreeSet
SpecPost == InitPost /\ [][NextPost]_vars

(***************************************************************************)
(* main.  An invocation is what Args::parse() reads: the --account and     *)
(* --access-key options, the STORAGE_ACCOUNT and STORAGE_ACCESS_KEY        *)
(* environment variables, a leading --help flag, the subcommand token, the *)
(* container name that follows it and the token of the nested subcommand.  *)
(***************************************************************************)
Accounts == {"acct1"}

EnvAccounts == {"acct2"}

Keys == {"key1"}

EnvKeys == {"key2"}

CommandTokens == {"account", "container", "queues", "datalake", "tables", "readme", "bogus"}

ContainerNames == {"c1"}

\* the subcommands of the families, declared in the modules of the families
LeafTokens == {"list", "create"}

Option(S) == {None} \cup {Some(x) : x \in S}

Invocations ==
    [cli_account : Option(Accounts), env_account : Option(EnvAccounts),
     cli_access_key : Option(Keys), env_access_key : Option(EnvKeys),
     help : BOOLEAN, command : Option(CommandTokens),
     container_name : Option(ContainerNames), leaf : Option(LeafTokens)]

\* what the forwarded call returns: Ok(()) or an error
Outcomes == {[ok |-> TRUE, error |-> "none"],
             [ok |-> FALSE, error |-> "not found"],
             [ok |-> FALSE, error |-> "forbidden"]}

\* #[clap(long, env = ...)]: the option of the command line, else the
\* environment variable
arg_value(cli, env) == IF cli # None THEN cli ELSE env

\* the variant of SubCommands the tokens select, if any
parse_subcommand(i) ==
    IF i.command = None THEN None
    ELSE LET c == i.command[1]
         IN CASE c = "readme" ->
                   IF i.container_name = None /\ i.leaf = None
                   THEN Some([tag |-> "Readme"])
                   ELSE None
              [] c = "container" ->
                   IF i.container_name # None /\ i.leaf # None
                   THEN Some([tag |-> "Container", subcommand |-> i.leaf[1],
                              container_name |-> i.container_name[1]])
                   ELSE None
              [] c \in {"account", "queues", "datalake", "tables"} ->
                   IF i.container_name = None /\ i.leaf # None
                   THEN Some([tag |-> CASE c = "account" -> "Account"
                                        [] c = "queues" -> "Queues"
                                        [] c = "datalake" -> "Datalake"
                                        [] c = "tables" -> "Tables",
                              subcommand |-> i.leaf[1]])
                   ELSE None
              [] OTHER -> None

\* parse with a missing account defaulted to the empty name
parse_default_account(i) ==
    LET account == arg_value(i.cli_account, i.env_account)
        access_key == arg_value(i.cli_access_key, i.env_access_key)
        subcommand == parse_subcommand(i)
    IN IF i.help THEN [kind |-> "help", args |-> None]
       ELSE IF subcommand = None THEN [kind |-> "error", args |-> None]
       ELSE [kind |-> "ok",
             args |-> Some([account |-> IF account = None THEN "" ELSE account[1],
                            access_key |-> access_key,
                            subcommand |-> subcommand[1]])]

\* Args::parse(): the parsed Args, the help text, or a usage error
parse(i) ==
    LET account == arg_value(i.cli_account, i.env_account)
        access_key == arg_value(i.cli_access_key, i.env_access_key)
        subcommand == parse_subcommand(i)
    IN IF i.help THEN [kind |-> "help", args |-> None]
       ELSE IF account = None \/ subcommand = None THEN [kind |-> "error", args |-> None]
       ELSE [kind |-> "ok",
             args |-> Some([account |-> account[1], access_key |-> access_key,
                            subcommand |-> subcommand[1]])]

\* StorageCredentials::access_key
access_key_credentials(account, key) ==
    [kind |-> "access_key", account |-> account, key |-> key]

\* StorageCredentials::token_credential(Arc::new(DefaultAzureCredential::default()))
token_credential ==
    [kind |-> "token_credential", account |-> "none", key |-> "DefaultAzureCredential"]

\* select_credentials with the key of the environment falling back to the
\* ambient identity
select_credentials_fallback(account, access_key) ==
    IF access_key # None /\ access_key[1] \in Keys
    THEN access_key_credentials(account, access_key[1])
    ELSE token_credential

\* the match on access_key
select_credentials(account, access_key) ==
    IF access_key # None
    THEN access_key_credentials(account, access_key[1])
    ELSE token_credential

\* BlobServiceClient::new, QueueServiceClient::new, DataLakeClient::new,
\* TableServiceClient::new
new_client(type, account, credentials) ==
    [type |-> type, account |-> account, credentials |-> credentials]

\* BlobServiceClient::container_client
container_client(service_client, container_name) ==
    [type |-> "ContainerClient", service_client |-> service_client,
     container_name |-> container_name]

\* a call of account_commands, container_commands, queues_commands,
\* datalake_commands or table_commands
group_call(group, client, subcommand) ==
    [group |-> group, client |-> client, subcommand |-> subcommand]

\* termination with the error of the forwarded call dropped
termination_swallow(result) == [code |-> 0, errors |-> <<>>]

\* the exit status and the error reported when main returns: the ? after
\* the forwarded call returns its error, otherwise main returns Ok(())
termination(result) ==
    IF result # None /\ ~result[1].ok
    THEN [code |-> 1, errors |-> <<result[1].error>>]
    ELSE [code |-> 0, errors |-> <<>>]

Init ==
    /\ pc = "start"
    /\ inv \in Invocations
    /\ args = None
    /\ storage_credentials = None
    /\ clients = <<>>
    /\ calls = <<>>
    /\ outcome = None
    /\ stdout = <<>>
    /\ stderr = <<>>
    /\ exit_code = None
    /\ cmd = <<>>
    /\ DocEmpty

\* let Args { access_key, account, subcommand } = Args::parse();
Parse ==
    /\ pc = "start"
    /\ LET r == parse(inv)
       IN CASE r.kind = "ok" ->
                 /\ args' = r.args
                 /\ pc' = "parsed"
                 /\ UNCHANGED <<stdout, stderr, exit_code>>
            [] r.kind = "help" ->
                 /\ args' = None
                 /\ stdout' = render_long_help(ArgsCommand[1])
                 /\ exit_code' = Some(0)
                 /\ pc' = "exit"
                 /\ UNCHANGED stderr
            [] r.kind = "error" ->
                 /\ args' = None
                 /\ stderr' = Append(stderr, "usage")
                 /\ exit_code' = Some(2)
                 /\ pc' = "exit"
                 /\ UNCHANGED stdout
    /\ UNCHANGED <<inv, storage_credentials, clients, calls, outcome, cmd,
                   sections, docVars>>

\* let storage_credentials = match access_key { ... };
ResolveCredentials ==
    /\ pc = "parsed"
    /\ storage_credentials' = Some(select_credentials(args[1].account, args[1].access_key))
    /\ pc' = "resolved"
    /\ UNCHANGED <<inv, args, clients, calls, outcome, stdout, stderr, exit_code,
                   cmd, sections, docVars>>

\* an arm of the match on subcommand that constructs client, has the call
\* made on target and awaits its result
Forward(client, group, target) ==
    /\ clients' = Append(clients, client)
    /\ calls' = Append(calls, group_call(group, target, args[1].subcommand.subcommand))
    /\ \E r \in Outcomes : outcome' = Some(r)
    /\ pc' = "returned"
    /\ UNCHANGED <<inv, args, storage_credentials, stdout, stderr, exit_code, cmd,
                   sections, docVars>>

\* Readme with the blob service client constructed before rendering
ReadmeWithClient ==
    /\ pc = "resolved"
    /\ args[1].subcommand.tag = "Readme"
    /\ cmd' = ArgsCommand
    /\ sections' = build_readme(cmd', 1, <<>>)
    /\ rendered' = readme_text(sections')
    /\ renamed' = rename_binary(rendered')
    /\ titled' = replace_root_heading(renamed')
    /\ stripped' = strip_lines(titled')
    /\ readme' = collapse_blank_lines(stripped')
    /\ stdout' = stdout \o readme'
    /\ clients' = Append(clients,
                         new_client("BlobServiceClient", args[1].account, storage_credentials[1]))
    /\ pc' = "returned"
    /\ UNCHANGED <<inv, args, storage_credentials, calls, outcome, stderr, exit_code>>

\* SubCommands::Readme => { ... print!("{readme}"); }
Readme ==
    /\ pc = "resolved"
    /\ args[1].subcommand.tag = "Readme"
    /\ cmd' = ArgsCommand
    /\ sections' = build_readme(cmd', 1, <<>>)
    /\ rendered' = readme_text(sections')
    /\ renamed' = rename_binary(rendered')
    /\ titled' = replace_root_heading(renamed')
    /\ stripped' = strip_lines(titled')
    /\ readme' = collapse_blank_lines(stripped')
    /\ stdout' = stdout \o readme'
    /\ pc' = "returned"
    /\ UNCHANGED <<inv, args, storage_credentials, clients, calls, outcome, stderr,
                   exit_code>>

\* SubCommands::Account { subcommand } => { ... }
Account ==
    /\ pc = "resolved"
    /\ args[1].subcommand.tag = "Account"
    /\ LET service_client ==
               new_client("BlobServiceClient", args[1].account, storage_credentials[1])
       IN Forward(service_client, "account_commands", service_client)

\* Container with the call made on the service client, not narrowed
ContainerNotNarrowed ==
    /\ pc = "resolved"
    /\ args[1].subcommand.tag = "Container"
    /\ LET service_client ==
               new_client("BlobServiceClient", args[1].account, storage_credentials[1])
       IN Forward(service_client, "container_commands", service_client)

\* SubCommands::Container { subcommand, container_name } => { ... }
Container ==
    /\ pc = "resolved"
    /\ args[1].subcommand.tag = "Container"
    /\ LET service_client ==
               new_client("BlobServiceClient", args[1].account, storage_credentials[1])
       IN Forward(service_client, "container_commands",
                  container_client(service_client, args[1].subcommand.container_name))

\* SubCommands::Queues { subcommand } => { ... }
Queues ==
    /\ pc = "resolved"
    /\ args[1].subcommand.tag = "Queues"
    /\ LET service_client ==
               new_client("QueueServiceClient", args[1].account, storage_credentials[1])
       IN Forward(service_client, "queues_commands", service_client)

\* SubCommands::Datalake { subcommand } => { ... }
Datalake ==
    /\ pc = "resolved"
    /\ args[1].subcommand.tag = "Datalake"
    /\ LET service_client ==
               new_client("DataLakeClient", args[1].account, storage_credentials[1])
       IN Forward(service_client, "datalake_commands", service_client)

\* SubCommands::Tables { subcommand } => { ... }
Tables ==
    /\ pc = "resolved"
    /\ args[1].subcommand.tag = "Tables"
    /\ LET table_client ==
               new_client("TableServiceClient", args[1].account, storage_credentials[1])
       IN Forward(table_client, "table_commands", table_client)

\* the ? of the arm, or Ok(()) at the end of main, and the exit of the process
Return ==
    /\ pc = "returned"
    /\ LET t == termination(outcome)
       IN /\ exit_code' = Some(t.code)
          /\ stderr' = stderr \o t.errors
    /\ pc' = "exit"
    /\ UNCHANGED <<inv, args, storage_credentials, clients, calls, outcome, stdout, cmd,
                   sections, docVars>>

Next ==
    \/ Parse
    \/ ResolveCredentials
    \/ Readme
    \/ Account
    \/ Container
    \/ Queues
    \/ Datalake
    \/ Tables
    \/ Return

\* one run of main for every invocation
Spec == Init /\ [][Next]_vars

(***************************************************************************)
(* Properties of build_readme, checked under SpecReadme.                   *)
(***************************************************************************)
\* the command whose subcommand c is
Parent(tree, c) ==
    CHOOSE p \in 1..Len(tree) :
        \E k \in 1..Len(tree[p].subcommands) : tree[p].subcommands[k] = c

RECURSIVE PathTo(_, _)
\* the command nodes from the root to c, both included
PathTo(tree, c) == IF c = 1 THEN <<1>> ELSE Append(PathTo(tree, Parent(tree, c)), c)

Depth(tree, c) == Len(PathTo(tree, c))

\* a is c or an ancestor of c
OnPathTo(tree, a, c) == \E k \in 1..Depth(tree, c) : PathTo(tree, c)[k] = a

\* neither c nor an ancestor of c is marked hidden
Shown(tree, c) == \A k \in 1..Depth(tree, c) : ~tree[PathTo(tree, c)[k]].hide

SectionsOf(n) == {i \in DOMAIN sections : sections[i].node = n}

\* the first line of the text of a section
HeadingLine(s) == lines(section_text(s))[1]

\* the number of '#' a line starts with
Markers(line) == Cardinality({i \in 1..Len(line) : \A j \in 1..i : line[j] = "#"})

\* what follows the markers and the space of a heading line
DisplayName(line) == SubSeq(line, Markers(line) + 2, Len(line))

\* the name of a command followed by its positionals as <ID>
Words(c) ==
    <<c.name>> \o [k \in 1..Len(c.positionals) |->
                      <<"<">> \o to_uppercase(c.positionals[k]) \o <<">">>]

\* C1: every heading build_readme emits has min(d, 6) '#' characters, d
\* being the number of command nodes from the root to the node, whatever
\* positionals the node and its ancestors declare.
C1_HeadingLevelIsDepth ==
    pc = "rendered" =>
        \A i \in DOMAIN sections :
            Markers(HeadingLine(sections[i])) =
                min(Depth(cmd, sections[i].node), MaxHeadingLevel)

\* C2: build_readme emits exactly one section for every node that is not
\* hidden and is not below a hidden node, and none for any other node,
\* whatever the names of the nodes.
C2_SectionsAreTheShownNodes ==
    pc = "rendered" =>
        \A n \in 1..Len(cmd) :
            Cardinality(SectionsOf(n)) = IF Shown(cmd, n) THEN 1 ELSE 0

\* the sections follow the pre-order of the tree: a command before its
\* subcommands, and all of an earlier subcommand before a later one
PreOrder ==
    \A i, j \in DOMAIN sections :
        LET a == sections[i].node
            b == sections[j].node
        IN /\ (b # 1 /\ Parent(cmd, b) = a) => i < j
           /\ \A q \in 1..Len(cmd) :
                \A k, l \in 1..Len(cmd[q].subcommands) :
                    (/\ k < l
                     /\ OnPathTo(cmd, cmd[q].subcommands[k], a)
                     /\ OnPathTo(cmd, cmd[q].subcommands[l], b)) => i < j

\* C10 as stated: the display name of a section is the names of the
\* commands from the root to the node joined by spaces, then the node's own
\* positionals as <ID>; the sections are in pre-order.
C10_NameOfPathAndOwnPositionals ==
    pc = "rendered" =>
        /\ \A i \in DOMAIN sections :
              LET n == sections[i].node
                  path == PathTo(cmd, n)
              IN DisplayName(HeadingLine(sections[i])) =
                     join([k \in 1..Len(path) |-> cmd[path[k]].name] \o Tail(Words(cmd[n])),
                          <<" ">>)
        /\ PreOrder

\* C10 amended: the display name of a section is, for every command from
\* the root to the node in order, its name followed by its positionals as
\* <ID> upper-cased in declaration order, all joined by single spaces; the
\* sections are in pre-order, and a section does not depend on the
\* subcommands rendered before it.
C10_NameOfPathWithPositionals ==
    pc = "rendered" =>
        /\ \A i \in DOMAIN sections :
              LET n == sections[i].node
                  path == PathTo(cmd, n)
              IN DisplayName(HeadingLine(sections[i])) =
                     join(concat([k \in 1..Len(path) |-> Words(cmd[path[k]])]), <<" ">>)
        /\ PreOrder

\* a rendered tree in which a command with a positional has a rendered
\* subcommand with positionals of its own, after an earlier subcommand
C10_Witness ==
    /\ pc = "rendered"
    /\ \E i, j \in DOMAIN sections :
          LET n == sections[i].node
          IN /\ n # 1
             /\ i < j
             /\ sections[j].node # 1
             /\ Parent(cmd, sections[j].node) = n
             /\ cmd[n].positionals # <<>>
             /\ Len(cmd[sections[j].node].positionals) = 2
             /\ \E h \in DOMAIN sections :
                   h < i /\ sections[h].node # 1 /\ Parent(cmd, sections[h].node) = 1

(***************************************************************************)
(* Properties of the post-processing passes, checked under SpecPost.       *)
(***************************************************************************)
\* the lengths of the maximal runs of "\n" in doc, in order
NewlineRuns(doc) ==
    LET at == {i \in 1..Len(doc) : doc[i] = "\n"}
        starts == sorted_seq({i \in at : i = 1 \/ doc[i - 1] # "\n"})
        run(i) == Cardinality({j \in at : j >= i /\ \A k \in i..j : doc[k] = "\n"})
    IN [k \in 1..Len(starts) |-> run(starts[k])]

\* the non-blank lines of doc, in order
NonBlank(p) == p # <<>>

Texts(doc) == SelectSeq(split_newline(doc), NonBlank)

\* l with nothing but white space removed from its end
IsTrimmedOf(t, l) ==
    /\ Len(t) <= Len(l)
    /\ t = SubSeq(l, 1, Len(t))
    /\ \A k \in (Len(t) + 1)..Len(l) : l[k] \in WhiteSpace
    /\ (t # <<>> => t[Len(t)] \notin WhiteSpace)

\* the stripped document has the lines of the document before it, each
\* without its trailing white space
LinesStripped ==
    LET before == lines(titled)
        after == split_newline(stripped)
    IN /\ Len(after) = Len(before)
       /\ \A k \in 1..Len(after) : IsTrimmedOf(after[k], before[k])

\* C8 as stated: trailing white space is stripped from every line, and then
\* two consecutive blank lines (three line ends in a row) become one blank
\* line (two line ends), while single blank lines and the non-blank lines
\* are kept.
C8_TwoBlankLinesBecomeOne ==
    /\ pc \in {"stripped", "collapsed"} => LinesStripped
    /\ pc = "collapsed" =>
          LET before == NewlineRuns(stripped)
              after == NewlineRuns(readme)
          IN /\ Texts(readme) = Texts(stripped)
             /\ Len(after) = Len(before)
             /\ \A k \in 1..Len(before) :
                   /\ before[k] <= 2 => after[k] = before[k]
                   /\ before[k] = 3 => after[k] = 2

\* C8 amended: trailing white space is stripped from every line, and then
\* every three line ends in a row, found left to right without overlap,
\* become one line end: a run of m line ends becomes m div 3 + m mod 3 of
\* them, so two consecutive blank lines disappear altogether, three become
\* one and four become two, while single blank lines and the non-blank
\* lines are kept.
C8_ThreeLineEndsBecomeOne ==
    /\ pc \in {"stripped", "collapsed"} => LinesStripped
    /\ pc = "collapsed" =>
          LET before == NewlineRuns(stripped)
              after == NewlineRuns(readme)
          IN /\ Texts(readme) = Texts(stripped)
             /\ Len(after) = Len(before)
             /\ \A k \in 1..Len(before) :
                   after[k] = (before[k] \div 3) + (before[k] % 3)

\* a document with white space stripped from a line and with two
\* consecutive blank lines has been collapsed
C8_Witness ==
    /\ pc = "collapsed"
    /\ stripped # titled
    /\ \E k \in 1..Len(NewlineRuns(stripped)) : NewlineRuns(stripped)[k] = 3

\* the root heading of the rendered document is the internal name of the
\* binary
RootHeadingIsBinName == lines(rendered)[1] = <<"#", " ">> \o BinName

\* C9: when the root heading is the internal name of the binary, the
\* document after the replacement starts with the title line, a blank line
\* and the description, and every other line, so every other heading, is
\* as the rename pass left it; the printed document starts the same way.
C9_OnlyRootHeadingReplaced ==
    /\ (pc \in {"titled", "stripped", "collapsed"} /\ RootHeadingIsBinName) =>
          LET before == lines(renamed)
              after == lines(titled)
          IN /\ Len(after) = Len(before) + 2
             /\ after[1] = Title
             /\ after[2] = <<>>
             /\ after[3] = CARGO_PKG_DESCRIPTION
             /\ SubSeq(after, 4, Len(after)) = SubSeq(before, 2, Len(before))
    /\ (pc = "collapsed" /\ RootHeadingIsBinName) =>
          /\ Len(lines(readme)) >= 3
          /\ lines(readme)[1] = Title
          /\ lines(readme)[2] = <<>>
          /\ lines(readme)[3] = CARGO_PKG_DESCRIPTION

\* a processed document with a deeper heading that begins with the alias,
\* such as "## azs account"
C9_Witness ==
    /\ pc = "collapsed"
    /\ RootHeadingIsBinName
    /\ \E k \in 2..Len(lines(renamed)) :
          LET l == lines(renamed)[k]
          IN /\ Len(l) > 6
             /\ SubSeq(l, 1, 6) = <<"#">> \o RootHeading
             /\ lines(titled)[k + 2] = l

(***************************************************************************)
(* Properties of main, checked under Spec.                                 *)
(***************************************************************************)
Parsed == args # None

IsReadme == Parsed /\ args[1].subcommand.tag = "Readme"

IsFamily == Parsed /\ args[1].subcommand.tag # "Readme"

\* the access key of the invocation: the option, else the environment
KeyGiven == inv.cli_access_key # None \/ inv.env_access_key # None

GivenKey == IF inv.cli_access_key # None THEN inv.cli_access_key[1] ELSE inv.env_access_key[1]

GivenAccount == IF inv.cli_account # None THEN inv.cli_account[1] ELSE inv.env_account[1]

\* C3: once resolved, the credential is the key-based variant with the
\* account and key of the invocation when an access key is given and the
\* identity-based variant when none is given, whatever the subcommand; every
\* run that parses resolves exactly one of the two.
C3_CredentialFollowsAccessKey ==
    /\ pc \in {"start", "parsed"} => storage_credentials = None
    /\ (Parsed /\ pc \notin {"start", "parsed"}) =>
          /\ Len(storage_credentials) = 1
          /\ KeyGiven =>
                storage_credentials[1] =
                    [kind |-> "access_key", account |-> GivenAccount, key |-> GivenKey]
          /\ ~KeyGiven => storage_credentials[1].kind = "token_credential"
    /\ ~Parsed => storage_credentials = None

\* the key of the environment has selected the key-based credential of a
\* readme run
C3_Witness ==
    /\ pc = "exit"
    /\ IsReadme
    /\ inv.cli_access_key = None
    /\ storage_credentials[1].kind = "access_key"

\* C4 as stated: in a run of the readme subcommand no credential is
\* resolved, no client is constructed and no operation is called.
C4_ReadmeResolvesNothing ==
    IsReadme =>
        /\ storage_credentials = None
        /\ clients = <<>>
        /\ calls = <<>>

\* C4 amended: in a run of the readme subcommand the credential is resolved
\* as in every run that parses, but it is never used: no client is
\* constructed and no operation is called at any point of the run; the only
\* steps after parsing and resolving are rendering the whole tree and
\* printing the result.
C4_ReadmeConstructsNothing ==
    IsReadme =>
        /\ clients = <<>>
        /\ calls = <<>>
        /\ outcome = None
        /\ pc \in {"parsed", "resolved"} => stdout = <<>> /\ sections = <<>>
        /\ pc \in {"resolved", "returned", "exit"} => storage_credentials # None
        /\ pc \in {"returned", "exit"} =>
              /\ sections # <<>>
              /\ sections[1].node = 1
              /\ {sections[i].node : i \in DOMAIN sections} =
                    {n \in 1..Len(ArgsCommand) : ArgsCommand[n].name # ReadmeName}
              /\ readme # <<>>
              /\ stdout = readme

C4_Witness == IsReadme /\ pc = "exit" /\ stdout # <<>>

\* the client family and the operation group of a subcommand
ExpectedClient(tag) ==
    CASE tag \in {"Account", "Container"} -> "BlobServiceClient"
      [] tag = "Queues" -> "QueueServiceClient"
      [] tag = "Datalake" -> "DataLakeClient"
      [] tag = "Tables" -> "TableServiceClient"

ExpectedGroup(tag) ==
    CASE tag = "Account" -> "account_commands"
      [] tag = "Container" -> "container_commands"
      [] tag = "Queues" -> "queues_commands"
      [] tag = "Datalake" -> "datalake_commands"
      [] tag = "Tables" -> "table_commands"

\* C5: a run of a subcommand other than readme constructs exactly one
\* service client, of the family of the subcommand, with the account and
\* the credential of the run, narrows it to the container name for the
\* container family, and makes exactly one call, of the operation group of
\* the family, on it; no run makes more than one call, and the renderer is
\* not invoked.
C5_OneClientOneCall ==
    /\ Len(calls) <= 1
    /\ Len(clients) <= 1
    /\ IsFamily =>
          LET sub == args[1].subcommand
          IN /\ sections = <<>> /\ readme = <<>> /\ stdout = <<>>
             /\ pc \in {"parsed", "resolved"} => clients = <<>> /\ calls = <<>>
             /\ pc \in {"returned", "exit"} =>
                   /\ Len(clients) = 1
                   /\ clients[1] = [type |-> ExpectedClient(sub.tag),
                                    account |-> GivenAccount,
                                    credentials |-> storage_credentials[1]]
                   /\ Len(calls) = 1
                   /\ calls[1].group = ExpectedGroup(sub.tag)
                   /\ calls[1].subcommand = inv.leaf[1]
                   /\ calls[1].client =
                         IF sub.tag = "Container"
                         THEN [type |-> "ContainerClient", service_client |-> clients[1],
                               container_name |-> inv.container_name[1]]
                         ELSE clients[1]

C5_Witness ==
    /\ pc = "exit"
    /\ IsFamily
    /\ args[1].subcommand.tag = "Container"
    /\ Len(calls) = 1

\* the tokens that name a subcommand
KnownCommands == {"account", "container", "queues", "datalake", "tables", "readme"}

\* the cases of a failed parse: no account, or no subcommand that matches
NoAccount == inv.cli_account = None /\ inv.env_account = None

NoLeaf ==
    \/ inv.command = None
    \/ inv.command # None /\ inv.command[1] \notin KnownCommands
    \/ inv.command # None /\ inv.command[1] \in KnownCommands \ {"readme"} /\ inv.leaf = None

\* C6: parsing comes first.  When it fails (no subcommand matches, or no
\* account is given on the command line or in the environment) the run
\* ends with a non-zero exit and no credential is resolved, no client is
\* constructed, no operation is called and nothing is rendered; when it
\* succeeds exactly one subcommand is selected, the one of the invocation.
C6_ParseComesFirst ==
    /\ (pc # "start" /\ ~inv.help /\ (NoAccount \/ NoLeaf)) => ~Parsed
    /\ (pc # "start" /\ ~inv.help /\ ~Parsed) =>
          /\ pc = "exit"
          /\ Len(exit_code) = 1
          /\ exit_code[1] # 0
          /\ Len(stderr) = 1
    /\ ~Parsed =>
          /\ storage_credentials = None
          /\ clients = <<>>
          /\ calls = <<>>
          /\ outcome = None
          /\ sections = <<>>
          /\ readme = <<>>
    /\ Parsed =>
          /\ ~NoAccount /\ ~NoLeaf
          /\ args[1].account = GivenAccount
          /\ args[1].subcommand.tag =
                CASE inv.command[1] = "account" -> "Account"
                  [] inv.command[1] = "container" -> "Container"
                  [] inv.command[1] = "queues" -> "Queues"
                  [] inv.command[1] = "datalake" -> "Datalake"
                  [] inv.command[1] = "tables" -> "Tables"
                  [] inv.command[1] = "readme" -> "Readme"
          /\ IsFamily => args[1].subcommand.subcommand = inv.leaf[1]

\* a run with a subcommand but without an account has ended
C6_Witness ==
    /\ pc = "exit"
    /\ ~inv.help
    /\ NoAccount
    /\ ~NoLeaf
    /\ exit_code = Some(2)

\* C7: the run ends as its forwarded call ended: with the error of the
\* call and a non-zero exit when the call failed, with exit 0 when it
\* succeeded or the subcommand is readme; the call is made once, never
\* again, and no run reports more than one error.
C7_OutcomeIsTheCallsOutcome ==
    /\ Len(stderr) <= 1
    /\ Len(calls) <= 1
    /\ outcome # None => Len(calls) = 1
    /\ (pc = "exit" /\ outcome # None) =>
          IF outcome[1].ok
          THEN exit_code = Some(0) /\ stderr = <<>>
          ELSE /\ Len(exit_code) = 1
               /\ exit_code[1] # 0
               /\ stderr = <<outcome[1].error>>
    /\ (pc = "exit" /\ IsReadme) => exit_code = Some(0) /\ stderr = <<>>
    /\ (pc = "exit" /\ Parsed) => (exit_code = Some(0) <=> (outcome = None \/ outcome[1].ok))

\* a run whose forwarded call failed has ended
C7_Witness ==
    /\ pc = "exit"
    /\ IsFamily
    /\ outcome # None
    /\ ~outcome[1].ok
    /\ exit_code = Some(1)

====
